---- MODULE Spec2Model ----
(***************************************************************************)
(* asyncx: a lifecycle-tracking layer in front of the asynq task queue.    *)
(*                                                                         *)
(* Client.Enqueue submits a task to the queue and then writes the task's   *)
(* record to the Store (InsertCreated, MarkEnqueued).  The Processor wraps *)
(* every handler in lifecycleMiddleware, which writes MarkStarted before   *)
(* the handler and MarkCompleted / MarkFailed after it.  SQLStore executes *)
(* every write as one SQL statement in the '?' placeholder style and, when *)
(* that fails, once more in the '$n' style.                                *)
(*                                                                         *)
(* Every SQL statement and every queue operation is one atomic step; the   *)
(* steps of an Enqueue call and of the worker that runs the same task      *)
(* interleave freely, as the goroutines of the program do.                 *)
(***************************************************************************)
EXTENDS Integers, Sequences, FiniteSets, TLC

(***************************************************************************)
(* Bounds of the model.                                                    *)
(***************************************************************************)
\* Timestamps time.Now() can return: 0..MaxTime.
MaxTime == 1
\* Retries the queue grants a task whose handler failed (asynq.MaxRetry).
MaxRetry == 1
\* Payload values P{N: n}, n in 1..MaxN.
MaxN == 2

\* The Client.Enqueue calls, and the id the queue assigns to the task of each.
\* Calls for different tasks write different rows.
Calls == {1}
TaskIDs == Calls
Times == 0..MaxTime

(***************************************************************************)
(* Values.                                                                 *)
(***************************************************************************)
\* Go's nil error, and a nil *string.
ErrNil == "<nil>"
NilString == "<nil string>"
\* SQL NULL in a text column and in a timestamp column.
NullText == "<NULL>"
NullTime == -1
\* A nil *time.Time, and the zero time.Time.
NilTime == -2
ZeroTime == -3

StatusCreated == "created"
StatusInProgress == "in_progress"
StatusCompleted == "completed"
StatusFailed == "failed"
Statuses == {StatusCreated, StatusInProgress, StatusCompleted, StatusFailed}

\* The task types registered on the mux, by what their handler does.
TaskTypes == {"it:ok", "it:fail", "it:flaky", "it:panic", "it:result"}
\* A payload json.Marshal cannot encode (a channel, a func).
Unserializable == [n |-> -1]
Payloads == {[n |-> n] : n \in 1..MaxN} \cup {Unserializable}
\* The queue option the caller passes to Enqueue: none, or asynq.Queue(q).
NoOption == "<no option>"
CallerQueues == {NoOption, "critical"}
\* The result payload a handler writes by itself.
HandlerResult == "{\"r\":1}"
PanicOutcome == "<panic>"

NoRow == [absent |-> TRUE]
NoInfo == [absent |-> TRUE]
NoTask == [absent |-> TRUE]
NoRet == [absent |-> TRUE]
NoCall == [absent |-> TRUE]

(***************************************************************************)
(* State.                                                                  *)
(***************************************************************************)
VARIABLES
    asynqClient,    \* c.client /= nil
    clientStore,    \* c.store /= nil
    clientQueue,    \* c.queue
    procStore,      \* p.store /= nil
    taskIDInCtx,    \* asynq.GetTaskID(ctx) finds the id (always, under the asynq server)
    sqldb,          \* s.db: "nil", or the dialect of the database behind it
    faulty,         \* the database may fail a statement (connection loss, timeout)
    now,            \* the clock time.Now() reads
    db,             \* table asyncx_tasks: id -> row
    tasks,          \* the queue (Redis): id -> task and its queue state
    call,           \* c -> the state of the c-th Client.Enqueue call
    disp,           \* id -> the state of the worker dispatch of task id
    storeCall       \* the state of a direct call of a SQLStore method

config == <<asynqClient, clientStore, clientQueue, procStore, taskIDInCtx, sqldb, faulty>>
vars == <<asynqClient, clientStore, clientQueue, procStore, taskIDInCtx, sqldb, faulty,
          now, db, tasks, call, disp, storeCall>>

(***************************************************************************)
(* Client construction and the queue's option handling.                    *)
(***************************************************************************)
\* NewClient: an empty ClientOptions.Queue means the queue "default".
NewClientQueue(q) == IF q = "" THEN "default" ELSE q

\* json.Marshal(payload): the JSON text of P{N: n}, or an error.
Marshal(payload) ==
    IF payload = Unserializable
    THEN [bytes |-> "", err |-> "json: unsupported type"]
    ELSE [bytes |-> "{\"n\":" \o ToString(payload.n) \o "}", err |-> ErrNil]

\* The options Enqueue hands to EnqueueContext: the caller's, then
\* asynq.Queue(c.queue).
EnqueueOptions(options, q) == Append(options, q)

\* asynq composes the options in order, each Queue option replacing the
\* queue chosen so far; without any, the queue is "default".
RECURSIVE ComposeQueue(_, _)
ComposeQueue(opts, q) ==
    IF opts = <<>> THEN q ELSE ComposeQueue(Tail(opts), Head(opts))

\* The caller's options as a sequence of queue options.
CallerOptions(o) == IF o = NoOption THEN <<>> ELSE <<o>>

(***************************************************************************)
(* The table asyncx_tasks and the statements SQLStore executes.            *)
(***************************************************************************)
Columns == {"type", "queue", "payload_json", "status", "error_msg", "result_json",
            "created_at", "enqueued_at", "started_at", "finished_at"}

\* The columns an INSERT does not name are NULL.
NewRow(cols) ==
    [c \in Columns |->
        IF c \in DOMAIN cols THEN cols[c]
        ELSE IF c \in {"error_msg", "result_json"} THEN NullText ELSE NullTime]

\* A variant that replaces the row of an id the table already has.
SqlInsert_Upserts(d, id, cols) ==
    [err |-> ErrNil, db |-> [d EXCEPT ![id] = NewRow(cols)]]

\* INSERT INTO asyncx_tasks: id is the primary key, a second row fails.
SqlInsert(d, id, cols) ==
    IF d[id] # NoRow
    THEN [err |-> "UNIQUE constraint failed", db |-> d]
    ELSE [err |-> ErrNil, db |-> [d EXCEPT ![id] = NewRow(cols)]]

\* A variant that reports an UPDATE matching no row as an error.
SqlUpdate_NotFound(d, id, cols) ==
    IF d[id] = NoRow
    THEN [err |-> "sql: no rows in result set", db |-> d]
    ELSE [err |-> ErrNil,
          db |-> [d EXCEPT ![id] =
                    [c \in Columns |-> IF c \in DOMAIN cols THEN cols[c] ELSE d[id][c]]]]

\* UPDATE asyncx_tasks SET ... WHERE id = ?: no matching row is no error.
SqlUpdate(d, id, cols) ==
    IF d[id] = NoRow
    THEN [err |-> ErrNil, db |-> d]
    ELSE [err |-> ErrNil,
          db |-> [d EXCEPT ![id] =
                    [c \in Columns |-> IF c \in DOMAIN cols THEN cols[c] ELSE d[id][c]]]]

\* A nil *string argument is written as NULL.
NullableText(p) == IF p = NilString THEN NullText ELSE p

\* A variant that writes the Status field of the record it is given.
InsertCreatedStmt_RecStatus(rec, t) ==
    [kind |-> "insert", id |-> rec.ID,
     cols |-> [type |-> rec.Type, queue |-> rec.Queue, payload_json |-> rec.PayloadJSON,
               status |-> rec.Status, created_at |-> t]]

\* Lines 35-40: the INSERT writes StatusCreated and time.Now(), whatever the
\* record's Status and CreatedAt fields hold.
InsertCreatedStmt(rec, t) ==
    [kind |-> "insert", id |-> rec.ID,
     cols |-> [type |-> rec.Type, queue |-> rec.Queue, payload_json |-> rec.PayloadJSON,
               status |-> StatusCreated, created_at |-> t]]

\* A variant of MarkEnqueued that writes the wrong status constant.
MarkEnqueuedStmt_InProgress(taskID, queue, enqueuedAt) ==
    [kind |-> "update", id |-> taskID,
     cols |-> [status |-> StatusInProgress, queue |-> queue, enqueued_at |-> enqueuedAt]]

\* A variant of MarkEnqueued that also stamps created_at.
MarkEnqueuedStmt_SetsCreatedAt(taskID, queue, enqueuedAt) ==
    [kind |-> "update", id |-> taskID,
     cols |-> [status |-> StatusCreated, queue |-> queue, enqueued_at |-> enqueuedAt,
               created_at |-> enqueuedAt]]

\* A variant of MarkEnqueued that leaves the status as it is.
MarkEnqueuedStmt_KeepsStatus(taskID, queue, enqueuedAt) ==
    [kind |-> "update", id |-> taskID,
     cols |-> [queue |-> queue, enqueued_at |-> enqueuedAt]]

MarkEnqueuedStmt(taskID, queue, enqueuedAt) ==
    [kind |-> "update", id |-> taskID,
     cols |-> [status |-> StatusCreated, queue |-> queue, enqueued_at |-> enqueuedAt]]

\* A variant of MarkStarted that leaves the status as it is.
MarkStartedStmt_KeepsStatus(taskID, startedAt) ==
    [kind |-> "update", id |-> taskID, cols |-> [started_at |-> startedAt]]

MarkStartedStmt(taskID, startedAt) ==
    [kind |-> "update", id |-> taskID,
     cols |-> [status |-> StatusInProgress, started_at |-> startedAt]]

\* A variant that keeps the stored result when it is given none.
MarkCompletedStmt_KeepsResult(taskID, resultJSON, finishedAt) ==
    [kind |-> "update", id |-> taskID,
     cols |-> IF resultJSON = NilString
              THEN [status |-> StatusCompleted, finished_at |-> finishedAt]
              ELSE [status |-> StatusCompleted, result_json |-> resultJSON,
                    finished_at |-> finishedAt]]

MarkCompletedStmt(taskID, resultJSON, finishedAt) ==
    [kind |-> "update", id |-> taskID,
     cols |-> [status |-> StatusCompleted, result_json |-> NullableText(resultJSON),
               finished_at |-> finishedAt]]

\* A variant of MarkFailed that does not write the finish time.
MarkFailedStmt_NoFinishTime(taskID, errorMsg, finishedAt) ==
    [kind |-> "update", id |-> taskID,
     cols |-> [status |-> StatusFailed, error_msg |-> errorMsg]]

MarkFailedStmt(taskID, errorMsg, finishedAt) ==
    [kind |-> "update", id |-> taskID,
     cols |-> [status |-> StatusFailed, error_msg |-> errorMsg, finished_at |-> finishedAt]]

\* The statements a database accepts: MySQL the '?' style, Postgres the '$n'
\* style, and SQLite, the database of the tests, both styles, except that it
\* has no NOW(), which the '$n' style UPDATE statements call.
Accepts(dialect, style, kind) ==
    \/ dialect = "mysql" /\ style = "?"
    \/ dialect = "postgres" /\ style = "$"
    \/ dialect = "sqlite" /\ ~(style = "$" /\ kind = "update")

\* s.db.ExecContext: one statement, applied entirely or not at all.
ExecContext(d, style, stmt, fail) ==
    IF ~Accepts(sqldb, style, stmt.kind) THEN [err |-> "syntax error", db |-> d]
    ELSE IF fail THEN [err |-> "driver: bad connection", db |-> d]
    ELSE IF stmt.kind = "insert" THEN SqlInsert(d, stmt.id, stmt.cols)
    ELSE SqlUpdate(d, stmt.id, stmt.cols)

\* The statement of a Store call; t is the call's timestamp argument, and
\* for InsertCreated the time.Now() of the attempt.
Stmt(sc, t) ==
    CASE sc.op = "InsertCreated" -> InsertCreatedStmt(sc.rec, t)
      [] sc.op = "MarkEnqueued" -> MarkEnqueuedStmt(sc.id, sc.queue, t)
      [] sc.op = "MarkStarted" -> MarkStartedStmt(sc.id, t)
      [] sc.op = "MarkCompleted" -> MarkCompletedStmt(sc.id, sc.arg, t)
      [] OTHER -> MarkFailedStmt(sc.id, sc.arg, t)

\* A variant that always executes the '$n' statement as well.
NeedsRetry_Always(err) == TRUE

\* Every write retries in the '$n' style when the '?' attempt returned an error.
NeedsRetry(err) == err # ErrNil

\* The outcomes the database can give one statement.
Failures == IF faulty THEN BOOLEAN ELSE {FALSE}

\* QueryRowContext and Scan: the row of taskID, or the error Scan returns.
QueryRowScan(d, style, taskID, fail) ==
    IF ~Accepts(sqldb, style, "select") THEN [row |-> NoRow, err |-> "syntax error"]
    ELSE IF fail THEN [row |-> NoRow, err |-> "driver: bad connection"]
    ELSE IF d[taskID] = NoRow THEN [row |-> NoRow, err |-> "sql: no rows in result set"]
    ELSE [row |-> d[taskID], err |-> ErrNil]

\* Lines 125-145: the TaskRecord of a scanned row.  A NULL column leaves its
\* pointer field nil, and EnqueuedAt the zero time.
ScannedRecord(taskID, row) ==
    [ID |-> taskID,
     Type |-> row.type,
     Queue |-> row.queue,
     PayloadJSON |-> row.payload_json,
     Status |-> row.status,
     ErrorMsg |-> IF row.error_msg = NullText THEN NilString ELSE row.error_msg,
     ResultJSON |-> IF row.result_json = NullText THEN NilString ELSE row.result_json,
     CreatedAt |-> row.created_at,
     EnqueuedAt |-> IF row.enqueued_at = NullTime THEN ZeroTime ELSE row.enqueued_at,
     StartedAt |-> IF row.started_at = NullTime THEN NilTime ELSE row.started_at,
     FinishedAt |-> IF row.finished_at = NullTime THEN NilTime ELSE row.finished_at]

\* A variant that answers a missing row with an empty record and no error.
GetByIDScan_EmptyRecord(d, taskID, fail1, fail2) ==
    IF sqldb = "nil" THEN [rec |-> NoRow, err |-> "nil db"]
    ELSE LET s1 == QueryRowScan(d, "?", taskID, fail1)
             s2 == QueryRowScan(d, "$", taskID, fail2)
         IN  IF s1.err = ErrNil THEN [rec |-> ScannedRecord(taskID, s1.row), err |-> ErrNil]
             ELSE IF s2.err = ErrNil
             THEN [rec |-> ScannedRecord(taskID, s2.row), err |-> ErrNil]
             ELSE [rec |-> [ID |-> taskID], err |-> ErrNil]

\* SQLStore.GetByID, lines 108-124: the query in the '?' style and, when its
\* Scan fails, in the '$n' style; the second error is the call's error.
GetByIDScan(d, taskID, fail1, fail2) ==
    IF sqldb = "nil" THEN [rec |-> NoRow, err |-> "nil db"]
    ELSE LET s1 == QueryRowScan(d, "?", taskID, fail1)
             s2 == QueryRowScan(d, "$", taskID, fail2)
         IN  IF s1.err = ErrNil THEN [rec |-> ScannedRecord(taskID, s1.row), err |-> ErrNil]
             ELSE IF s2.err = ErrNil
             THEN [rec |-> ScannedRecord(taskID, s2.row), err |-> ErrNil]
             ELSE [rec |-> NoRow, err |-> s2.err]

\* SQLStore.GetByID on a database that fails no query.
GetByID(d, taskID) == GetByIDScan(d, taskID, FALSE, FALSE)

\* time.Now(): the clock never runs backwards.
Nows == {t \in Times : t >= now}

(***************************************************************************)
(* Initial state: a Client and a Processor constructed over one SQLStore,  *)
(* an empty table and an empty queue.                                      *)
(***************************************************************************)
IdleCall ==
    [pc |-> "idle", taskType |-> "", payload |-> Unserializable, option |-> NoOption,
     payloadJSON |-> "", info |-> NoInfo, at |-> NullTime, log |-> <<>>, errs |-> <<>>,
     submits |-> 0, ret |-> NoRet]

IdleDispatch ==
    [pc |-> "idle", at |-> NullTime, err |-> ErrNil, log |-> <<>>, ret |-> NoRet,
     recorded |-> FALSE]

\* No SQLStore method has been called directly.
IdleStoreCall ==
    [pc |-> "idle", sc |-> NoCall, at |-> NullTime, before |-> <<>>, stmts |-> <<>>,
     ret |-> NoRet]

Init ==
    /\ asynqClient \in BOOLEAN
    /\ clientStore \in BOOLEAN
    /\ clientQueue \in {NewClientQueue(q) : q \in {"", "low"}}
    /\ procStore \in BOOLEAN
    /\ taskIDInCtx \in BOOLEAN
    /\ sqldb \in {"nil", "mysql", "postgres", "sqlite"}
    /\ faulty \in BOOLEAN
    /\ now = 0
    /\ db = [id \in TaskIDs |-> NoRow]
    /\ tasks = [id \in TaskIDs |-> NoTask]
    /\ call = [c \in Calls |-> IdleCall]
    /\ disp = [id \in TaskIDs |-> IdleDispatch]
    /\ storeCall = IdleStoreCall

(***************************************************************************)
(* Client.Enqueue.                                                         *)
(***************************************************************************)
\* A variant that drops the error of json.Marshal and submits anyway.
ReturnsMarshalErr_Ignored(err) == FALSE

\* Lines 41-44: Enqueue returns the error of json.Marshal.
ReturnsMarshalErr(err) == err # ErrNil

\* Lines 46-49: Enqueue returns the error of EnqueueContext.
ReturnsQueueErr(err) == err # ErrNil

\* A variant that keys the record by the task type, the same key for every
\* task of one type, instead of the id the queue assigned.
EnqueueRecord_KeyedByType(info, taskType, payloadJSON) ==
    [ID |-> 1, Type |-> taskType, Queue |-> info.Queue,
     PayloadJSON |-> payloadJSON, Status |-> StatusCreated]

\* Lines 51-59: the TaskRecord built from the queue's info.
EnqueueRecord(info, taskType, payloadJSON) ==
    [ID |-> info.ID, Type |-> taskType, Queue |-> info.Queue,
     PayloadJSON |-> payloadJSON, Status |-> StatusCreated]

\* A variant that marks the task enqueued before it inserts the record.
EnqueueStoreCalls_MarkFirst(info, taskType, payloadJSON) ==
    << [op |-> "MarkEnqueued", id |-> info.ID, queue |-> info.Queue],
       [op |-> "InsertCreated", id |-> info.ID, queue |-> info.Queue,
        rec |-> EnqueueRecord(info, taskType, payloadJSON)] >>

\* Lines 60-63: the Store calls of Enqueue, in order.
EnqueueStoreCalls(info, taskType, payloadJSON) ==
    << [op |-> "InsertCreated", id |-> info.ID, queue |-> info.Queue,
        rec |-> EnqueueRecord(info, taskType, payloadJSON)],
       [op |-> "MarkEnqueued", id |-> info.ID, queue |-> info.Queue] >>

\* A variant that returns the first Store error to the caller.
EnqueueResult_SurfacesStoreErr(info, errs) ==
    IF \E i \in 1..Len(errs) : errs[i] # ErrNil
    THEN [info |-> NoInfo,
          err |-> errs[CHOOSE i \in 1..Len(errs) :
                        errs[i] # ErrNil /\ \A j \in 1..(i - 1) : errs[j] = ErrNil]]
    ELSE [info |-> info, err |-> ErrNil]

\* Line 64: what Enqueue returns after its Store calls, whose errors
\* (errs, one per call) it discards.
EnqueueResult(info, errs) == [info |-> info, err |-> ErrNil]

StoreCallsOf(cs) == EnqueueStoreCalls(cs.info, cs.taskType, cs.payloadJSON)

\* Lines 38-49 and 60, 64: the nil check, json.Marshal, EnqueueContext; the call
\* returns here on an error and when the client has no store.
Enqueue(c) ==
    /\ call[c].pc = "idle"
    /\ \E taskType \in TaskTypes, payload \in Payloads, option \in CallerQueues,
          queueErr \in {ErrNil, "redis: connection refused"} :
        LET m == Marshal(payload)
            queue == ComposeQueue(EnqueueOptions(CallerOptions(option), clientQueue),
                                  "default")
            info == [ID |-> c, Queue |-> queue]
            cs == [call[c] EXCEPT !.taskType = taskType, !.payload = payload,
                                  !.option = option]
        IN  IF ~asynqClient
            THEN /\ call' = [call EXCEPT ![c] =
                        [cs EXCEPT !.pc = "done",
                                   !.ret = [info |-> NoInfo, err |-> "nil asynq client"]]]
                 /\ tasks' = tasks
            ELSE IF ReturnsMarshalErr(m.err)
            THEN /\ call' = [call EXCEPT ![c] =
                        [cs EXCEPT !.pc = "done",
                                   !.ret = [info |-> NoInfo, err |-> m.err]]]
                 /\ tasks' = tasks
            ELSE IF ReturnsQueueErr(queueErr)
            THEN /\ call' = [call EXCEPT ![c] =
                        [cs EXCEPT !.pc = "done", !.payloadJSON = m.bytes,
                                   !.submits = 1,
                                   !.ret = [info |-> NoInfo, err |-> queueErr]]]
                 /\ tasks' = tasks
            ELSE /\ call' = [call EXCEPT ![c] =
                        [cs EXCEPT !.pc = IF clientStore THEN "store" ELSE "done",
                                   !.payloadJSON = m.bytes, !.submits = 1, !.info = info,
                                   !.ret = IF clientStore THEN NoRet
                                           ELSE EnqueueResult(info, <<>>)]]
                 /\ tasks' = [tasks EXCEPT ![c] =
                        [type |-> taskType, payload |-> m.bytes, queue |-> queue,
                         state |-> "pending", retried |-> 0]]
    /\ UNCHANGED <<config, storeCall, now, db, disp>>

\* The Store call of Enqueue has returned err: the next call, or the return.
AfterStoreCall(cs, err) ==
    LET errs == Append(cs.errs, err)
    IN  IF Len(errs) < Len(StoreCallsOf(cs))
        THEN [cs EXCEPT !.pc = "store", !.at = NullTime, !.errs = errs]
        ELSE [cs EXCEPT !.pc = "done", !.at = NullTime, !.errs = errs,
                        !.ret = EnqueueResult(cs.info, errs)]

\* Lines 61 and 62: the next Store call of Enqueue (InsertCreated, then
\* MarkEnqueued): the nil-db check and the statement in the '?' style.
ClientStoreCall(c) ==
    /\ call[c].pc = "store"
    /\ \E t \in Nows :
        LET sc == StoreCallsOf(call[c])[Len(call[c].errs) + 1]
            cs == [call[c] EXCEPT !.log = Append(@, sc)]
        IN  /\ now' = t
            /\ IF sqldb = "nil"
               THEN /\ call' = [call EXCEPT ![c] = AfterStoreCall(cs, "nil db")]
                    /\ db' = db
               ELSE \E fail \in Failures :
                    LET r == ExecContext(db, "?", Stmt(sc, t), fail)
                    IN  /\ db' = r.db
                        /\ call' = [call EXCEPT ![c] =
                              IF NeedsRetry(r.err)
                              THEN [cs EXCEPT !.pc = "store$", !.at = t]
                              ELSE AfterStoreCall(cs, ErrNil)]
    /\ UNCHANGED <<config, storeCall, tasks, disp>>

\* The same statement in the '$n' style; its error is the call's error.
\* InsertCreated reads time.Now() again, the Mark calls keep their argument.
ClientStoreCallRetry(c) ==
    /\ call[c].pc = "store$"
    /\ LET cs == call[c]
           sc == StoreCallsOf(cs)[Len(cs.errs) + 1]
       IN  \E t \in (IF sc.op = "InsertCreated" THEN Nows ELSE {cs.at}), fail \in Failures :
            LET r == ExecContext(db, "$", Stmt(sc, t), fail)
            IN  /\ now' = IF sc.op = "InsertCreated" THEN t ELSE now
                /\ db' = r.db
                /\ call' = [call EXCEPT ![c] = AfterStoreCall(cs, r.err)]
    /\ UNCHANGED <<config, storeCall, tasks, disp>>

(***************************************************************************)
(* The queue's worker pool and Processor.lifecycleMiddleware.              *)
(***************************************************************************)
\* What the registered handler of a task type can do: return nil, return an
\* error, or panic.
HandlerOutcomes(taskType) ==
    CASE taskType = "it:ok" -> {ErrNil}
      [] taskType = "it:fail" -> {"boom"}
      [] taskType = "it:flaky" -> {ErrNil, "oops"}
      [] taskType = "it:panic" -> {PanicOutcome}
      [] OTHER -> {ErrNil}

\* Lines 37-38 and 43-44: the wrapper writes when it has a store and the
\* context carries the task id.
Tracks == procStore /\ taskIDInCtx

\* Line 39: the Store call before the handler.
StartCall(taskID) == [op |-> "MarkStarted", id |-> taskID]

\* A variant that marks every task completed, whatever the handler returned.
TerminalCall_AlwaysCompleted(taskID, err) ==
    [op |-> "MarkCompleted", id |-> taskID, arg |-> NilString]

\* Lines 45-49: the Store call after the handler returned err.
TerminalCall(taskID, err) ==
    IF err # ErrNil THEN [op |-> "MarkFailed", id |-> taskID, arg |-> err]
    ELSE [op |-> "MarkCompleted", id |-> taskID, arg |-> NilString]

\* A variant that returns the error of the terminal Store call when there is one.
MiddlewareResult_StoreErr(err, storeErr) == IF storeErr # ErrNil THEN storeErr ELSE err

\* Line 52: the wrapper returns the handler's error, whatever the store said.
MiddlewareResult(err, storeErr) == err

\* The queue's reaction to what the wrapper returned: done on nil, another
\* delivery while retries remain, archived after the last.
QueueAfter(task, ret) ==
    IF ret = ErrNil THEN [task EXCEPT !.state = "completed"]
    ELSE IF task.retried < MaxRetry
    THEN [task EXCEPT !.state = "pending", !.retried = @ + 1]
    ELSE [task EXCEPT !.state = "archived"]

\* The wrapper returns to the worker pool.
Returned(id, ds, storeErr) ==
    LET ret == MiddlewareResult(ds.err, storeErr)
    IN  /\ disp' = [disp EXCEPT ![id] =
              [ds EXCEPT !.pc = "idle", !.at = NullTime, !.ret = [err |-> ret]]]
        /\ tasks' = [tasks EXCEPT ![id] = QueueAfter(tasks[id], ret)]

\* The worker pool takes a pending task and calls the wrapped handler:
\* lines 37-41, MarkStarted with the nil-db check and the '?' statement.
Dispatch(id) ==
    /\ tasks[id] # NoTask
    /\ tasks[id].state = "pending"
    /\ disp[id].pc = "idle"
    /\ tasks' = [tasks EXCEPT ![id].state = "active"]
    /\ LET ds == [IdleDispatch EXCEPT
                     !.recorded = (call[id].pc = "done" /\ db[id] # NoRow)]
       IN  IF ~Tracks
           THEN /\ disp' = [disp EXCEPT ![id] = [ds EXCEPT !.pc = "next"]]
                /\ UNCHANGED <<now, db>>
           ELSE \E t \in Nows :
                LET dl == [ds EXCEPT !.log = <<StartCall(id)>>]
                IN  /\ now' = t
                    /\ IF sqldb = "nil"
                       THEN /\ disp' = [disp EXCEPT ![id] = [dl EXCEPT !.pc = "next"]]
                            /\ db' = db
                       ELSE \E fail \in Failures :
                            LET r == ExecContext(db, "?", Stmt(StartCall(id), t), fail)
                            IN  /\ db' = r.db
                                /\ disp' = [disp EXCEPT ![id] =
                                      IF NeedsRetry(r.err)
                                      THEN [dl EXCEPT !.pc = "MarkStarted$", !.at = t]
                                      ELSE [dl EXCEPT !.pc = "next"]]
    /\ UNCHANGED <<config, storeCall, call>>

\* MarkStarted again in the '$n' style; the wrapper discards its error.
MarkStartedRetry(id) ==
    /\ disp[id].pc = "MarkStarted$"
    /\ \E fail \in Failures :
        LET r == ExecContext(db, "$", Stmt(StartCall(id), disp[id].at), fail)
        IN  /\ db' = r.db
            /\ disp' = [disp EXCEPT ![id].pc = "next", ![id].at = NullTime]
    /\ UNCHANGED <<config, storeCall, now, tasks, call>>

\* Line 42: next.ProcessTask, for a handler that does not use the store.  A
\* panic unwinds through the wrapper to the worker pool, which treats it as
\* an error.
Handler(id) ==
    /\ disp[id].pc = "next"
    /\ tasks[id].type # "it:result"
    /\ \E outcome \in HandlerOutcomes(tasks[id].type) :
        LET ds == disp[id]
        IN  IF outcome = PanicOutcome
            THEN /\ disp' = [disp EXCEPT ![id] =
                       [ds EXCEPT !.pc = "idle", !.err = outcome,
                                  !.log = ds.log \o <<[op |-> "next"], [op |-> "panic"]>>,
                                  !.ret = [err |-> outcome]]]
                 /\ tasks' = [tasks EXCEPT ![id] = QueueAfter(tasks[id], outcome)]
            ELSE /\ disp' = [disp EXCEPT ![id] =
                       [ds EXCEPT !.pc = "terminal", !.err = outcome,
                                  !.log = ds.log \o <<[op |-> "next"],
                                                      [op |-> "return", arg |-> outcome]>>]]
                 /\ tasks' = tasks
    /\ UNCHANGED <<config, storeCall, now, db, call>>

\* Line 42: a handler that records its result the way the README describes:
\* it calls store.MarkCompleted(id, result, now) and returns the store's error.
HandlerWritesResult(id) ==
    /\ disp[id].pc = "next"
    /\ tasks[id].type = "it:result"
    /\ \E t \in Nows :
        LET ds == [disp[id] EXCEPT !.log = Append(@, [op |-> "next"])]
        IN  /\ now' = t
            /\ IF sqldb = "nil"
               THEN /\ disp' = [disp EXCEPT ![id] =
                           [ds EXCEPT !.pc = "terminal", !.err = "nil db",
                                      !.log = Append(@, [op |-> "return", arg |-> "nil db"])]]
                    /\ db' = db
               ELSE \E fail \in Failures :
                    LET r == ExecContext(db, "?", MarkCompletedStmt(id, HandlerResult, t), fail)
                    IN  /\ db' = r.db
                        /\ disp' = [disp EXCEPT ![id] =
                              IF NeedsRetry(r.err)
                              THEN [ds EXCEPT !.pc = "handler$", !.at = t]
                              ELSE [ds EXCEPT !.pc = "terminal", !.err = ErrNil,
                                         !.log = Append(@, [op |-> "return", arg |-> ErrNil])]]
    /\ UNCHANGED <<config, storeCall, tasks, call>>

\* The handler's MarkCompleted again in the '$n' style, then its return.
HandlerWritesResultRetry(id) ==
    /\ disp[id].pc = "handler$"
    /\ \E fail \in Failures :
        LET ds == disp[id]
            r == ExecContext(db, "$", MarkCompletedStmt(id, HandlerResult, ds.at), fail)
        IN  /\ db' = r.db
            /\ disp' = [disp EXCEPT ![id] =
                  [ds EXCEPT !.pc = "terminal", !.at = NullTime, !.err = r.err,
                             !.log = Append(@, [op |-> "return", arg |-> r.err])]]
    /\ UNCHANGED <<config, storeCall, now, tasks, call>>

\* Lines 43-52: after the handler returned, MarkFailed or MarkCompleted (the
\* nil-db check and the '?' statement), then the return of the handler's error.
Terminal(id) ==
    /\ disp[id].pc = "terminal"
    /\ IF ~Tracks
       THEN /\ Returned(id, disp[id], ErrNil)
            /\ UNCHANGED <<now, db>>
       ELSE \E t \in Nows :
            LET sc == TerminalCall(id, disp[id].err)
                ds == [disp[id] EXCEPT !.log = Append(@, sc)]
            IN  /\ now' = t
                /\ IF sqldb = "nil"
                   THEN /\ Returned(id, ds, "nil db")
                        /\ db' = db
                   ELSE \E fail \in Failures :
                        LET r == ExecContext(db, "?", Stmt(sc, t), fail)
                        IN  /\ db' = r.db
                            /\ IF NeedsRetry(r.err)
                               THEN /\ disp' = [disp EXCEPT ![id] =
                                          [ds EXCEPT !.pc = "terminal$", !.at = t]]
                                    /\ tasks' = tasks
                               ELSE Returned(id, ds, ErrNil)
    /\ UNCHANGED <<config, storeCall, call>>

\* The terminal write again in the '$n' style, then the return.
TerminalRetry(id) ==
    /\ disp[id].pc = "terminal$"
    /\ \E fail \in Failures :
        LET sc == TerminalCall(id, disp[id].err)
            r == ExecContext(db, "$", Stmt(sc, disp[id].at), fail)
        IN  /\ db' = r.db
            /\ Returned(id, disp[id], r.err)
    /\ UNCHANGED <<config, storeCall, now, call>>

(***************************************************************************)
(* The specification.                                                      *)
(***************************************************************************)
ClientStep(c) ==
    \/ Enqueue(c)
    \/ ClientStoreCall(c)
    \/ ClientStoreCallRetry(c)

WorkerStep(id) ==
    \/ Dispatch(id)
    \/ MarkStartedRetry(id)
    \/ Handler(id)
    \/ HandlerWritesResult(id)
    \/ HandlerWritesResultRetry(id)
    \/ Terminal(id)
    \/ TerminalRetry(id)

Next ==
    \/ \E c \in Calls : ClientStep(c)
    \/ \E id \in TaskIDs : WorkerStep(id)

Spec == Init /\ [][Next]_vars

\* The end-to-end scenario: Client and Processor share a Store, every write
\* succeeds, and the worker pool hands the wrapper the task id.
WritesSucceed ==
    /\ asynqClient
    /\ clientStore
    /\ procStore
    /\ taskIDInCtx
    /\ sqldb # "nil"
    /\ ~faulty

\* The initial states of the end-to-end scenario.
InitLive ==
    /\ Init
    /\ asynqClient /\ clientStore /\ procStore /\ taskIDInCtx
    /\ sqldb # "nil"
    /\ ~faulty

\* Every started Enqueue call and every dispatch runs on its own goroutine,
\* which the Go scheduler keeps running; the queue delivers a pending task.
SpecLive ==
    /\ InitLive
    /\ [][Next]_vars
    /\ \A c \in Calls : WF_vars(ClientStep(c))
    /\ \A id \in TaskIDs : WF_vars(WorkerStep(id))

(***************************************************************************)
(* Two goroutines call Client.Enqueue on one Client at the same time; no   *)
(* Processor runs.                                                         *)
(***************************************************************************)
\* The two calls, and the distinct ids the queue assigns to their tasks.
ConcCalls == {1, 2}

InitConc ==
    /\ asynqClient = TRUE
    /\ clientStore = TRUE
    /\ clientQueue \in {NewClientQueue(q) : q \in {"", "low"}}
    /\ procStore = FALSE
    /\ taskIDInCtx = FALSE
    /\ sqldb \in {"mysql", "postgres", "sqlite"}
    /\ faulty = FALSE
    /\ now = 0
    /\ db = [id \in ConcCalls |-> NoRow]
    /\ tasks = [id \in ConcCalls |-> NoTask]
    /\ call = [c \in ConcCalls |-> IdleCall]
    /\ disp = [id \in ConcCalls |-> IdleDispatch]
    /\ storeCall = IdleStoreCall

NextConc == \E c \in ConcCalls : ClientStep(c)

SpecConc == InitConc /\ [][NextConc]_vars

(***************************************************************************)
(* SQLStore called directly, as the store tests do: one method call on a   *)
(* table that earlier calls have filled.                                   *)
(***************************************************************************)
\* The ids of the table's rows and of the calls' arguments.
StoreIDs == {1, 2}
\* The number of Mark calls that have shaped a row before the call.
MaxHistory == 4

StoreTypes == {"it:ok", "it:fail"}
StoreQueues == {"default", "critical"}
StoreResults == {NilString, HandlerResult}
StoreErrors == {"boom"}
StorePayloads == {"{\"user_id\":123}"}

\* The TaskRecord arguments of InsertCreated for one id.
StoreRecords(id) ==
    {[ID |-> id, Type |-> ty, Queue |-> q, PayloadJSON |-> p, Status |-> st] :
        ty \in StoreTypes, q \in StoreQueues, p \in StorePayloads, st \in Statuses}

\* The Mark calls for one id, without their timestamp argument.
MarkCalls(id) ==
    {[op |-> "MarkEnqueued", id |-> id, queue |-> q] : q \in StoreQueues}
        \cup {[op |-> "MarkStarted", id |-> id]}
        \cup {[op |-> "MarkCompleted", id |-> id, arg |-> r] : r \in StoreResults}
        \cup {[op |-> "MarkFailed", id |-> id, arg |-> e] : e \in StoreErrors}

\* The write calls and the calls of GetByID.
WriteCalls ==
    UNION {{[op |-> "InsertCreated", id |-> id, rec |-> rec] : rec \in StoreRecords(id)}
              \cup MarkCalls(id) : id \in StoreIDs}
ReadCalls == {[op |-> "GetByID", id |-> id] : id \in StoreIDs}

\* The rows InsertCreated writes at time 0.
InsertedRows(id) ==
    {NewRow(InsertCreatedStmt(rec, 0).cols) :
        rec \in {r \in StoreRecords(id) : r.Type = "it:ok" /\ r.Queue = "default"}}

\* The rows of id after an InsertCreated and at most k Mark calls at time 0.
RECURSIVE RowsAfter(_, _)
RowsAfter(id, k) ==
    IF k = 0 THEN InsertedRows(id)
    ELSE LET rows == RowsAfter(id, k - 1)
         IN  rows \cup {SqlUpdate([i \in {id} |-> row], id, Stmt(sc, 0).cols).db[id] :
                            row \in rows, sc \in MarkCalls(id)}

\* A table of the store: the first row has any history, the second is new.
InitStore ==
    /\ asynqClient = FALSE
    /\ clientStore = FALSE
    /\ clientQueue = NewClientQueue("")
    /\ procStore = FALSE
    /\ taskIDInCtx = FALSE
    /\ sqldb \in {"nil", "mysql", "postgres", "sqlite"}
    /\ faulty \in BOOLEAN
    /\ now = 0
    /\ \E r1 \in RowsAfter(1, MaxHistory) \cup {NoRow}, r2 \in InsertedRows(2) \cup {NoRow} :
            db = [id \in StoreIDs |-> IF id = 1 THEN r1 ELSE r2]
    /\ tasks = [id \in StoreIDs |-> NoTask]
    /\ call = [c \in Calls |-> IdleCall]
    /\ disp = [id \in StoreIDs |-> IdleDispatch]
    /\ storeCall = IdleStoreCall

\* A test calls one SQLStore method: the nil-db check, then GetByID as a whole,
\* or the write's statement in the '?' style.
StoreCall ==
    /\ storeCall.pc = "idle"
    /\ \E sc \in WriteCalls \cup ReadCalls :
        LET st == [storeCall EXCEPT !.sc = sc, !.before = db]
        IN  IF sqldb = "nil"
            THEN /\ storeCall' = [st EXCEPT !.pc = "done",
                        !.ret = IF sc.op = "GetByID" THEN GetByIDScan(db, sc.id, FALSE, FALSE)
                                ELSE [err |-> "nil db"]]
                 /\ UNCHANGED <<now, db>>
            ELSE IF sc.op = "GetByID"
            THEN /\ \E fail1 \in Failures, fail2 \in Failures :
                        storeCall' = [st EXCEPT !.pc = "done",
                                         !.ret = GetByIDScan(db, sc.id, fail1, fail2)]
                 /\ UNCHANGED <<now, db>>
            ELSE \E t \in (IF sc.op = "InsertCreated" THEN Nows ELSE Times),
                    fail \in Failures :
                 LET r == ExecContext(db, "?", Stmt(sc, t), fail)
                     tried == [st EXCEPT !.stmts = <<[style |-> "?", err |-> r.err]>>]
                 IN  /\ now' = IF sc.op = "InsertCreated" THEN t ELSE now
                     /\ db' = r.db
                     /\ storeCall' =
                            IF NeedsRetry(r.err) THEN [tried EXCEPT !.pc = "retry", !.at = t]
                            ELSE [tried EXCEPT !.pc = "done", !.at = t,
                                               !.ret = [err |-> ErrNil]]
    /\ UNCHANGED <<config, tasks, call, disp>>

\* The write's statement in the '$n' style; its error is the call's error.
StoreCallRetry ==
    /\ storeCall.pc = "retry"
    /\ LET st == storeCall
           sc == st.sc
       IN  \E t \in (IF sc.op = "InsertCreated" THEN Nows ELSE {st.at}), fail \in Failures :
            LET r == ExecContext(db, "$", Stmt(sc, t), fail)
            IN  /\ now' = IF sc.op = "InsertCreated" THEN t ELSE now
                /\ db' = r.db
                /\ storeCall' = [st EXCEPT !.pc = "done", !.at = t,
                                           !.stmts = Append(@, [style |-> "$", err |-> r.err]),
                                           !.ret = [err |-> r.err]]
    /\ UNCHANGED <<config, tasks, call, disp>>

NextStore ==
    \/ StoreCall
    \/ StoreCallRetry

SpecStore == InitStore /\ [][NextStore]_vars

(***************************************************************************)
(* Properties of Client.Enqueue.                                           *)
(***************************************************************************)
SubmittedOK(c) == call[c].info # NoInfo

\* C1: whenever the queue submission succeeded, Enqueue returns the queue's
\* submission result and no error, whether InsertCreated and MarkEnqueued
\* succeeded or failed.
C1_StoreErrorsNeverSurface ==
    \A c \in Calls :
        (call[c].pc = "done" /\ SubmittedOK(c)) =>
            /\ call[c].ret = [info |-> call[c].info, err |-> ErrNil]
            /\ call[c].ret.info = [ID |-> c, Queue |-> tasks[c].queue]

\* An Enqueue that returned while both of its Store calls had failed.
C1_Witness ==
    \E c \in Calls :
        /\ call[c].pc = "done"
        /\ SubmittedOK(c)
        /\ Len(call[c].errs) = 2
        /\ call[c].errs[1] # ErrNil
        /\ call[c].errs[2] # ErrNil

\* C2: when Enqueue returns an error, it has called no Store operation and
\* the table has no row of its task; a payload that cannot be serialized is
\* never submitted to the queue.
C2_ErrorMeansNoStoreWrite ==
    \A c \in Calls :
        /\ (call[c].pc = "done" /\ call[c].ret.err # ErrNil) =>
                /\ call[c].log = <<>>
                /\ db[c] = NoRow
        /\ (call[c].pc # "idle" /\ Marshal(call[c].payload).err # ErrNil) =>
                /\ call[c].submits = 0
                /\ tasks[c] = NoTask
                /\ call[c].pc = "done"
                /\ call[c].ret.err # ErrNil

\* An Enqueue that returned the queue's rejection.
C2_Witness ==
    \E c \in Calls :
        /\ call[c].pc = "done"
        /\ call[c].submits = 1
        /\ call[c].ret.err = "redis: connection refused"

\* C10: after a successful submission, a Client with a Store calls
\* InsertCreated and then MarkEnqueued, both with the id and the queue the
\* queue assigned, MarkEnqueued also when InsertCreated failed, and nothing
\* else; without a successful submission it calls nothing.
C10_InsertThenMarkEnqueued ==
    \A c \in Calls :
        LET L == call[c].log
        IN  IF SubmittedOK(c) /\ clientStore
            THEN /\ Len(L) <= 2
                 /\ call[c].pc = "done" => Len(L) = 2
                 /\ Len(L) >= 1 =>
                        /\ L[1].op = "InsertCreated"
                        /\ L[1].rec.ID = c
                        /\ L[1].rec.Queue = tasks[c].queue
                 /\ Len(L) >= 2 =>
                        /\ L[2] = [op |-> "MarkEnqueued", id |-> c, queue |-> tasks[c].queue]
                        /\ Len(call[c].errs) >= 1
            ELSE L = <<>>

\* An Enqueue whose InsertCreated failed and whose MarkEnqueued was called.
C10_Witness ==
    \E c \in Calls :
        /\ call[c].pc = "done"
        /\ Len(call[c].log) = 2
        /\ call[c].errs[1] # ErrNil
        /\ call[c].log[2].op = "MarkEnqueued"

\* C9: the task goes to the caller's queue when the caller names one, and to
\* the client's default queue only otherwise.
C9_CallerQueueWins ==
    \A c \in Calls :
        SubmittedOK(c) =>
            LET want == IF call[c].option = NoOption THEN clientQueue ELSE call[c].option
            IN  /\ tasks[c].queue = want
                /\ call[c].info.Queue = want

(***************************************************************************)
(* Properties of the lifecycle wrapper.                                    *)
(***************************************************************************)
\* The dispatch of id has returned to the worker pool.
Finished(id) == disp[id].pc = "idle" /\ disp[id].ret # NoRet

\* C3: a wrapper that has a store and the task id calls MarkStarted(id)
\* before the handler, and after the handler returned exactly one of
\* MarkFailed(id, message), when the handler returned an error, and
\* MarkCompleted(id, no result) otherwise; one that lacks either calls nothing.
C3_WrapperCallOrder ==
    \A id \in TaskIDs :
        LET L == disp[id].log
        IN  IF Tracks
            THEN /\ Len(L) <= 4
                 /\ Len(L) >= 1 => L[1] = [op |-> "MarkStarted", id |-> id]
                 /\ Len(L) >= 2 => L[2] = [op |-> "next"]
                 /\ Len(L) >= 3 => L[3].op \in {"return", "panic"}
                 /\ Len(L) >= 4 =>
                        /\ L[3].op = "return"
                        /\ L[3].arg = disp[id].err
                        /\ L[4] = IF L[3].arg # ErrNil
                                  THEN [op |-> "MarkFailed", id |-> id, arg |-> L[3].arg]
                                  ELSE [op |-> "MarkCompleted", id |-> id, arg |-> NilString]
                 /\ (Finished(id) /\ disp[id].err # PanicOutcome) => Len(L) = 4
            ELSE \A i \in 1..Len(L) : L[i].op \in {"next", "return", "panic"}

\* A dispatch whose handler returned "boom" and was marked failed with it.
C3_Witness ==
    \E id \in TaskIDs :
        /\ Tracks
        /\ Finished(id)
        /\ Len(disp[id].log) = 4
        /\ disp[id].log[4] = [op |-> "MarkFailed", id |-> id, arg |-> "boom"]

\* C4: the wrapper returns the handler's outcome, nil or the same error,
\* whatever MarkStarted and the terminal call returned.
C4_ReturnsHandlerOutcome ==
    \A id \in TaskIDs :
        Finished(id) => disp[id].ret.err = disp[id].err

\* A handler success returned as success although every Store call failed.
C4_Witness ==
    \E id \in TaskIDs :
        /\ Tracks
        /\ sqldb = "nil"
        /\ Finished(id)
        /\ Len(disp[id].log) = 4
        /\ disp[id].err = ErrNil
        /\ disp[id].ret.err = ErrNil

(***************************************************************************)
(* Properties of the record of a task across Enqueue and its dispatches.   *)
(***************************************************************************)
HasStatus(id, status) ==
    /\ GetByID(db, id).err = ErrNil
    /\ GetByID(db, id).rec.Status = status

\* C5: when every write succeeds, a submitted task whose handler returns nil
\* eventually has a record with status completed, and one whose handler
\* returns "boom" eventually has a record with status failed and that message.
C5_EndToEnd ==
    \A id \in TaskIDs :
        /\ (WritesSucceed /\ tasks[id] # NoTask /\ tasks[id].type = "it:ok")
                ~> HasStatus(id, StatusCompleted)
        /\ (WritesSucceed /\ tasks[id] # NoTask /\ tasks[id].type = "it:fail")
                ~> (HasStatus(id, StatusFailed) /\ GetByID(db, id).rec.ErrorMsg = "boom")

\* A step that takes the record of id from failed to in_progress.
FailedToInProgress(id) ==
    /\ db[id] # NoRow
    /\ db[id].status = StatusFailed
    /\ db'[id].status = StatusInProgress

\* C6 as stated: no step takes a record from failed back to in_progress.
C6_NeverFailedToInProgress ==
    [][\A id \in TaskIDs : ~FailedToInProgress(id)]_vars

\* C6, amended: a record goes from failed to in_progress only by the
\* MarkStarted of a re-delivery of the task; no step of Enqueue and no other
\* step of a dispatch does it.
C6_OnlyRedeliveryRestarts ==
    [][\A id \in TaskIDs :
          FailedToInProgress(id) =>
              /\ tasks[id].retried >= 1
              /\ disp[id].pc \in {"idle", "MarkStarted$"}
              /\ disp'[id].pc = "next"
              /\ call' = call]_vars

\* A re-delivered task whose record is in_progress again after it had failed.
C6_Witness ==
    \E id \in TaskIDs :
        /\ db[id] # NoRow
        /\ tasks[id].retried >= 1
        /\ disp[id].pc = "next"
        /\ db[id].status = StatusInProgress
        /\ db[id].error_msg # NullText
        /\ db[id].finished_at # NullTime

\* The dispatch of id has returned, every write succeeds, and the record of
\* id existed, with Enqueue returned, before the dispatch began.
CleanDispatch(id) ==
    /\ WritesSucceed
    /\ Finished(id)
    /\ disp[id].recorded

\* C7: after a dispatch in which the handler panicked, the record is failed.
C7_PanicMarksFailed ==
    \A id \in TaskIDs :
        (CleanDispatch(id) /\ disp[id].err = PanicOutcome) => HasStatus(id, StatusFailed)

\* C8: after a dispatch in which the handler wrote its result and returned
\* nil, the record is completed and holds the result.
C8_HandlerResultKept ==
    \A id \in TaskIDs :
        (CleanDispatch(id) /\ tasks[id].type = "it:result" /\ disp[id].err = ErrNil) =>
            /\ HasStatus(id, StatusCompleted)
            /\ GetByID(db, id).rec.ResultJSON = HandlerResult

(***************************************************************************)
(* Properties of SQLStore, over SpecStore.                                 *)
(***************************************************************************)
MarkOps == {"MarkEnqueued", "MarkStarted", "MarkCompleted", "MarkFailed"}

\* A direct call of the method op has returned.
Called(op) == storeCall.pc = "done" /\ storeCall.sc.op = op

\* The database failed one of the call's statements (connection loss, timeout).
DatabaseFailed ==
    \E i \in 1..Len(storeCall.stmts) : storeCall.stmts[i].err = "driver: bad connection"

\* C11: MarkEnqueued, MarkStarted, MarkCompleted and MarkFailed called with an
\* id that has no record create no record and leave every existing record
\* unchanged, and on a database that fails no statement they return no error.
C11_MarkOnMissingIdIsNoOp ==
    \A op \in MarkOps :
        (Called(op) /\ storeCall.before[storeCall.sc.id] = NoRow) =>
            /\ db = storeCall.before
            /\ (sqldb # "nil" /\ ~DatabaseFailed) => storeCall.ret.err = ErrNil

\* MarkFailed has returned nil for an id without a record, next to another record.
C11_Witness ==
    /\ Called("MarkFailed")
    /\ storeCall.before[storeCall.sc.id] = NoRow
    /\ \E other \in StoreIDs : storeCall.before[other] # NoRow
    /\ storeCall.ret.err = ErrNil

\* C12: GetByID for an id that has no record fails: it returns a non-nil
\* error and a nil record, whatever the table holds, the dialect is and the
\* database does to the two queries.
C12_GetByIDMissingFails ==
    (Called("GetByID") /\ storeCall.before[storeCall.sc.id] = NoRow) =>
        /\ storeCall.ret.err # ErrNil
        /\ storeCall.ret.rec = NoRow

\* GetByID has returned for an id without a record while another id has one.
C12_Witness ==
    /\ Called("GetByID")
    /\ sqldb = "sqlite"
    /\ storeCall.before[storeCall.sc.id] = NoRow
    /\ \E other \in StoreIDs : storeCall.before[other] # NoRow
    /\ storeCall.ret.err = "sql: no rows in result set"

\* C13: InsertCreated has no upsert semantics: called with an id that already
\* has a record it returns an error and leaves the table, and with it every
\* column of the existing record, exactly as it was.
C13_InsertExistingFails ==
    (Called("InsertCreated") /\ storeCall.before[storeCall.sc.id] # NoRow) =>
        /\ storeCall.ret.err # ErrNil
        /\ db = storeCall.before

\* InsertCreated has returned for an id whose record was completed with a
\* result, after the database rejected both of its statements as duplicates.
C13_Witness ==
    /\ Called("InsertCreated")
    /\ storeCall.before[storeCall.sc.id] # NoRow
    /\ storeCall.before[storeCall.sc.id].status = StatusCompleted
    /\ storeCall.before[storeCall.sc.id].result_json = HandlerResult
    /\ storeCall.sc.rec.Queue # storeCall.before[storeCall.sc.id].queue
    /\ Len(storeCall.stmts) = 2
    /\ \A i \in 1..2 : storeCall.stmts[i].err = "UNIQUE constraint failed"

\* C14: InsertCreated with a fresh id succeeds on a database that fails no
\* statement, and after it GetByID returns a record equal to the input in id,
\* type, queue and payload, with status created whatever Status the input
\* carried, and with errorMessage, resultPayload, startedAt and finishedAt absent.
C14_InsertThenGet ==
    (Called("InsertCreated") /\ storeCall.before[storeCall.sc.id] = NoRow) =>
        LET rec == storeCall.sc.rec
            got == GetByID(db, rec.ID)
        IN  /\ (sqldb # "nil" /\ ~DatabaseFailed) => storeCall.ret.err = ErrNil
            /\ storeCall.ret.err = ErrNil =>
                    /\ got.err = ErrNil
                    /\ got.rec.ID = rec.ID
                    /\ got.rec.Type = rec.Type
                    /\ got.rec.Queue = rec.Queue
                    /\ got.rec.PayloadJSON = rec.PayloadJSON
                    /\ got.rec.Status = StatusCreated
                    /\ got.rec.ErrorMsg = NilString
                    /\ got.rec.ResultJSON = NilString
                    /\ got.rec.StartedAt = NilTime
                    /\ got.rec.FinishedAt = NilTime

\* InsertCreated has stored a record whose Status field said completed.
C14_Witness ==
    /\ Called("InsertCreated")
    /\ storeCall.before[storeCall.sc.id] = NoRow
    /\ storeCall.sc.rec.Status = StatusCompleted
    /\ storeCall.sc.rec.Type = "it:fail"
    /\ storeCall.ret.err = ErrNil
    /\ GetByID(db, storeCall.sc.id).rec.Status = StatusCreated

\* A direct call of the Mark method op has returned nil for an id that had a record.
Marked(op) ==
    /\ Called(op)
    /\ storeCall.before[storeCall.sc.id] # NoRow
    /\ storeCall.ret.err = ErrNil

\* A direct call of op for an id that had a record, on a database that failed
\* none of its statements, has returned nil.
MarkSucceeds(op) ==
    (/\ Called(op)
     /\ storeCall.before[storeCall.sc.id] # NoRow
     /\ sqldb # "nil"
     /\ ~DatabaseFailed) => storeCall.ret.err = ErrNil

\* C15: after MarkCompleted(id, r, t) on an existing record, GetByID(id) has
\* status completed, finishedAt t, and resultPayload r, absent when r is nil even
\* if the record held a result before; a startedAt set earlier is still there.
C15_MarkCompleted ==
    /\ MarkSucceeds("MarkCompleted")
    /\ Marked("MarkCompleted") =>
            LET was == storeCall.before[storeCall.sc.id]
                got == GetByID(db, storeCall.sc.id)
            IN  /\ got.err = ErrNil
                /\ got.rec.Status = StatusCompleted
                /\ got.rec.FinishedAt = storeCall.at
                /\ got.rec.ResultJSON = storeCall.sc.arg
                /\ was.started_at # NullTime => got.rec.StartedAt = was.started_at

\* MarkCompleted with a nil result has cleared the result of a started record.
C15_Witness ==
    /\ Marked("MarkCompleted")
    /\ storeCall.before[storeCall.sc.id].result_json = HandlerResult
    /\ storeCall.before[storeCall.sc.id].started_at = 0
    /\ storeCall.before[storeCall.sc.id].finished_at = 0
    /\ storeCall.sc.arg = NilString
    /\ storeCall.at = MaxTime
    /\ GetByID(db, storeCall.sc.id).rec.ResultJSON = NilString

\* C16: after MarkFailed(id, E, t) on an existing record in any status,
\* GetByID(id) has status failed, errorMessage E and finishedAt t.
C16_MarkFailed ==
    /\ MarkSucceeds("MarkFailed")
    /\ Marked("MarkFailed") =>
            LET got == GetByID(db, storeCall.sc.id)
            IN  /\ got.err = ErrNil
                /\ got.rec.Status = StatusFailed
                /\ got.rec.ErrorMsg = storeCall.sc.arg
                /\ got.rec.FinishedAt = storeCall.at

\* MarkFailed has failed a record that was completed at an earlier time.
C16_Witness ==
    /\ Marked("MarkFailed")
    /\ storeCall.before[storeCall.sc.id].status = StatusCompleted
    /\ storeCall.before[storeCall.sc.id].error_msg = NullText
    /\ storeCall.before[storeCall.sc.id].finished_at = 0
    /\ storeCall.at = MaxTime
    /\ GetByID(db, storeCall.sc.id).rec.Status = StatusFailed

\* C17: after MarkStarted(id, t) on an existing record in any status,
\* GetByID(id) has status in_progress and startedAt t.
C17_MarkStarted ==
    /\ MarkSucceeds("MarkStarted")
    /\ Marked("MarkStarted") =>
            LET got == GetByID(db, storeCall.sc.id)
            IN  /\ got.err = ErrNil
                /\ got.rec.Status = StatusInProgress
                /\ got.rec.StartedAt = storeCall.at

\* MarkStarted has restarted a record that was failed and started earlier.
C17_Witness ==
    /\ Marked("MarkStarted")
    /\ storeCall.before[storeCall.sc.id].status = StatusFailed
    /\ storeCall.before[storeCall.sc.id].started_at = 0
    /\ storeCall.at = MaxTime
    /\ GetByID(db, storeCall.sc.id).rec.Status = StatusInProgress

\* C18: after MarkEnqueued(id, q, t) on an existing record, GetByID(id) has
\* enqueuedAt t, queue q and status created, whatever the status was before.
C18_MarkEnqueued ==
    /\ MarkSucceeds("MarkEnqueued")
    /\ Marked("MarkEnqueued") =>
            LET got == GetByID(db, storeCall.sc.id)
            IN  /\ got.err = ErrNil
                /\ got.rec.EnqueuedAt = storeCall.at
                /\ got.rec.Queue = storeCall.sc.queue
                /\ got.rec.Status = StatusCreated

\* MarkEnqueued has moved a completed record to another queue and back to created.
C18_Witness ==
    /\ Marked("MarkEnqueued")
    /\ storeCall.before[storeCall.sc.id].status = StatusCompleted
    /\ storeCall.before[storeCall.sc.id].queue # storeCall.sc.queue
    /\ storeCall.before[storeCall.sc.id].enqueued_at = NullTime
    /\ GetByID(db, storeCall.sc.id).rec.Status = StatusCreated

\* The statements of the call that the database executed without error.
Applied == {i \in 1..Len(storeCall.stmts) : storeCall.stmts[i].err = ErrNil}

\* C20: every write operation of a store that has a database executes its
\* statement in the '?' style first and in the '$n' style exactly once if and
\* only if the first attempt failed, for any reason; it returns nil if either
\* attempt succeeded and otherwise the error of the second attempt.  No call
\* executes more than two statements, and the write is applied at most once.
C20_TwoAttempts ==
    (storeCall.pc = "done" /\ storeCall.sc \in WriteCalls /\ sqldb # "nil") =>
        LET stmts == storeCall.stmts
        IN  /\ Len(stmts) \in {1, 2}
            /\ stmts[1].style = "?"
            /\ Len(stmts) = 2 <=> stmts[1].err # ErrNil
            /\ Len(stmts) = 2 => stmts[2].style = "$"
            /\ storeCall.ret.err = IF Applied # {} THEN ErrNil ELSE stmts[2].err
            /\ Cardinality(Applied) <= 1

\* A write that failed in the '?' style for a lost connection, on a database
\* that accepts both styles, has been applied by the '$n' statement.
C20_Witness ==
    /\ Called("InsertCreated")
    /\ sqldb = "sqlite"
    /\ Len(storeCall.stmts) = 2
    /\ storeCall.stmts[1].err = "driver: bad connection"
    /\ storeCall.stmts[2].err = ErrNil
    /\ storeCall.ret.err = ErrNil
    /\ db[storeCall.sc.id] # NoRow

(***************************************************************************)
(* Properties of concurrent Enqueue calls, over SpecConc.                  *)
(***************************************************************************)
\* Both Store writes of call c returned nil.
StoreWritesSucceeded(c) == call[c].pc = "done" /\ call[c].errs = <<ErrNil, ErrNil>>

\* C19: when Enqueue calls run concurrently and the queue gives their tasks
\* distinct ids, every record in the table holds the payload, type and queue of
\* the call with its id, never another call's, at every point of every
\* interleaving of the calls' InsertCreated and MarkEnqueued steps; and each
\* call whose Store writes succeeded has its own record, which GetByID returns.
C19_ConcurrentEnqueues ==
    \A c \in ConcCalls :
        /\ db[c] # NoRow =>
                /\ db[c].payload_json = Marshal(call[c].payload).bytes
                /\ db[c].type = call[c].taskType
                /\ db[c].queue = call[c].info.Queue
        /\ StoreWritesSucceeded(c) =>
                LET got == GetByID(db, call[c].info.ID)
                IN  /\ got.err = ErrNil
                    /\ got.rec.ID = call[c].info.ID
                    /\ got.rec.PayloadJSON = Marshal(call[c].payload).bytes
                    /\ got.rec.Type = call[c].taskType
                    /\ got.rec.Queue = call[c].info.Queue

\* Two calls with one task type and different payloads overlap: the first has
\* inserted its record and not yet marked it enqueued, the second has inserted
\* its record after that and has returned, and its record is its own.
C19_Witness ==
    /\ call[1].pc = "store"
    /\ call[1].errs = <<ErrNil>>
    /\ StoreWritesSucceeded(2)
    /\ call[1].taskType = call[2].taskType
    /\ call[1].payload # call[2].payload
    /\ db[1].created_at < db[2].created_at
    /\ GetByID(db, 2).rec.PayloadJSON = Marshal(call[2].payload).bytes
    /\ GetByID(db, 1).rec.PayloadJSON = Marshal(call[1].payload).bytes

(***************************************************************************)
(* Properties of a record over its life.                                   *)
(***************************************************************************)
\* C21: a record's id, type, payload and createdAt never change after
\* InsertCreated: from a table of any history, no call of a SQLStore method
\* removes a record or modifies these columns, and MarkEnqueued, MarkStarted,
\* MarkCompleted and MarkFailed change no record but the one with the given id.
C21_ImmutableColumns ==
    storeCall.pc # "idle" =>
        \A id \in StoreIDs :
            /\ storeCall.before[id] # NoRow =>
                    /\ db[id] # NoRow
                    /\ db[id].type = storeCall.before[id].type
                    /\ db[id].payload_json = storeCall.before[id].payload_json
                    /\ db[id].created_at = storeCall.before[id].created_at
            /\ (storeCall.sc.op \in MarkOps /\ id # storeCall.sc.id) =>
                    db[id] = storeCall.before[id]

\* A Mark call at a later time has changed its record, created at time 0,
\* next to the record of another id.
C21_Witness ==
    /\ \E op \in MarkOps : Marked(op)
    /\ storeCall.at = MaxTime
    /\ \A id \in StoreIDs : storeCall.before[id] # NoRow
    /\ db[storeCall.sc.id] # storeCall.before[storeCall.sc.id]
    /\ db[storeCall.sc.id].created_at = 0

\* A step that takes the record of id from in_progress, completed or failed
\* back to created.
BackToCreated(id) ==
    /\ db[id] # NoRow
    /\ db[id].status # StatusCreated
    /\ db'[id].status = StatusCreated

\* C22: a record's status never regresses to created: in every interleaving
\* of one Enqueue with the dispatch of the same task, once the status is
\* in_progress, completed or failed, no later write sets it back to created.
C22_NeverBackToCreated ==
    [][\A id \in TaskIDs : ~BackToCreated(id)]_vars

\* C23: the wrapper's writes for a task (MarkStarted, MarkCompleted,
\* MarkFailed) are executed only after the Client's InsertCreated for its id:
\* when every write succeeds, a task for which the wrapper has called the
\* store has a record.
C23_WorkerWritesAfterInsert ==
    \A id \in TaskIDs :
        (WritesSucceed /\ disp[id].log # <<>>) => db[id] # NoRow

\* The dispatch of id began after Enqueue had returned and left a record.
DispatchedAfterEnqueue(id) ==
    /\ db[id] # NoRow
    /\ call[id].pc = "done"
    /\ disp[id].recorded

\* C24: a record has an errorMessage only while its status is failed and a
\* finishedAt only while its status is completed or failed, also across the
\* re-delivery of a task that failed: stated for tasks dispatched after
\* their Enqueue has returned.
C24_OptionalFieldsMatchStatus ==
    \A id \in TaskIDs :
        DispatchedAfterEnqueue(id) =>
            /\ db[id].error_msg # NullText => db[id].status = StatusFailed
            /\ db[id].finished_at # NullTime =>
                    db[id].status \in {StatusCompleted, StatusFailed}

====
